---- MODULE Spec2Model ----
(***************************************************************************)
(* Model of the studi-backend mock API: the in-memory profile store of     *)
(* routers/users.py, and the query synthesis and WebSocket loop of         *)
(* routers/agents.py.                                                      *)
(*                                                                         *)
(* Every HTTP handler of routers/users.py is an `async def` without any    *)
(* await in its body, so on the single event loop it runs from its first   *)
(* line to its return without another coroutine being scheduled: one       *)
(* handler invocation is one atomic action.  Requests that have been       *)
(* accepted but whose handler has not run yet are "pending"; the event     *)
(* loop may run pending handlers in any order.                             *)
(***************************************************************************)
EXTENDS Integers, Sequences, FiniteSets, TLC

(***************************************************************************)
(* Bounds                                                                  *)
(***************************************************************************)
MaxReqs == 3

MaxParts == 2

MaxFrames == 2

(***************************************************************************)
(* Optional[T]: None is the empty set, a present value v is {v}.           *)
(***************************************************************************)
None == {}

Some(v) == {v}

Val(o) == CHOOSE v \in o : TRUE

(***************************************************************************)
(* Python dicts are functions; d.update(P) mutates d in place.             *)
(***************************************************************************)
EmptyDict == << >>

\* A dict assignment that is not dict.update: the old keys are dropped.
dict_replace(d, P) == P

dict_update(d, P) ==
    [k \in (DOMAIN d) \cup (DOMAIN P) |-> IF k \in DOMAIN P THEN P[k] ELSE d[k]]

(***************************************************************************)
(* Identities resolved by the identity gate (routers/auth.py, which is not *)
(* part of the sources at hand).  "johndoe" is the identity the profile    *)
(* store is seeded for.                                                    *)
(***************************************************************************)
Users == {"johndoe", "alice"}

User(username) ==
    [username  |-> username,
     email     |-> IF username = "johndoe" THEN Some("johndoe@example.com") ELSE None,
     full_name |-> IF username = "johndoe" THEN Some("John Doe") ELSE None]

(***************************************************************************)
(* routers/users.py                                                        *)
(***************************************************************************)
fake_profiles_db ==
    [u \in {"johndoe"} |->
        [username    |-> "johndoe",
         email       |-> Some("johndoe@example.com"),
         full_name   |-> Some("John Doe"),
         bio         |-> Some("I am a student interested in computer science and mathematics."),
         avatar_url  |-> Some("https://example.com/avatars/johndoe.jpg"),
         preferences |-> [theme |-> "dark", notifications |-> TRUE, study_reminder |-> TRUE]]]

DefaultPreferences == [theme |-> "light", notifications |-> TRUE, study_reminder |-> FALSE]

\* The record built at lines 49-60 and 74-85, with the given preferences.
NewProfile(current_user, preferences) ==
    [username    |-> current_user.username,
     email       |-> current_user.email,
     full_name   |-> current_user.full_name,
     bio         |-> None,
     avatar_url  |-> None,
     preferences |-> preferences]

\* db[key] = value
SetItem(db, key, value) ==
    [k \in (DOMAIN db) \cup {key} |-> IF k = key THEN value ELSE db[k]]

\* GET /profile, mutated: a missing record is created with empty preferences.
get_user_profile_empty(db, current_user) ==
    LET db1 == IF current_user.username \notin DOMAIN db
               THEN SetItem(db, current_user.username,
                            NewProfile(current_user, EmptyDict))
               ELSE db
    IN  [db |-> db1, response |-> db1[current_user.username]]

\* GET /profile
get_user_profile(db, current_user) ==
    LET db1 == IF current_user.username \notin DOMAIN db
               THEN SetItem(db, current_user.username,
                            NewProfile(current_user, DefaultPreferences))
               ELSE db
    IN  [db |-> db1, response |-> db1[current_user.username]]

\* One optional scalar field of PUT /profile: overwritten when provided.
Overwrite(old, new) == IF new # None THEN new ELSE old

\* PUT /profile
update_user_profile(db, profile_update, current_user) ==
    LET db1 == IF current_user.username \notin DOMAIN db
               THEN SetItem(db, current_user.username,
                            NewProfile(current_user, DefaultPreferences))
               ELSE db
        p0  == db1[current_user.username]
        p1  == [p0 EXCEPT
                  !.email      = Overwrite(@, profile_update.email),
                  !.full_name  = Overwrite(@, profile_update.full_name),
                  !.bio        = Overwrite(@, profile_update.bio),
                  !.avatar_url = Overwrite(@, profile_update.avatar_url)]
        p2  == IF profile_update.preferences # None
               THEN [p1 EXCEPT !.preferences =
                        dict_update(@, Val(profile_update.preferences))]
               ELSE p1
    IN  [db |-> SetItem(db1, current_user.username, p2), response |-> p2]

\* GET /preferences, mutated: creates the record the way GET /profile does.
get_user_preferences_creates(db, current_user) ==
    LET db1 == SetItem(db, current_user.username,
                       IF current_user.username \in DOMAIN db
                       THEN db[current_user.username]
                       ELSE NewProfile(current_user, DefaultPreferences))
    IN  [db |-> db1, response |-> db1[current_user.username].preferences]

\* GET /preferences
get_user_preferences(db, current_user) ==
    IF current_user.username \notin DOMAIN db
    THEN [db |-> db, response |-> DefaultPreferences]
    ELSE [db |-> db, response |-> db[current_user.username].preferences]

\* PUT /preferences, mutated: a missing record starts from the defaults.
update_user_preferences_defaults(db, preferences, current_user) ==
    LET db1 == IF current_user.username \notin DOMAIN db
               THEN SetItem(db, current_user.username,
                            NewProfile(current_user, DefaultPreferences))
               ELSE db
        p   == [db1[current_user.username] EXCEPT
                  !.preferences = dict_update(@, preferences)]
    IN  [db |-> SetItem(db1, current_user.username, p), response |-> p.preferences]

\* PUT /preferences, mutated: the stored mapping is reset before the merge.
update_user_preferences_resets(db, preferences, current_user) ==
    LET db1 == IF current_user.username \notin DOMAIN db
               THEN SetItem(db, current_user.username,
                            NewProfile(current_user, EmptyDict))
               ELSE db
        p   == [db1[current_user.username] EXCEPT
                  !.preferences = dict_update(EmptyDict, preferences)]
    IN  [db |-> SetItem(db1, current_user.username, p), response |-> p.preferences]

\* PUT /preferences
update_user_preferences(db, preferences, current_user) ==
    LET db1 == IF current_user.username \notin DOMAIN db
               THEN SetItem(db, current_user.username,
                            NewProfile(current_user, EmptyDict))
               ELSE db
        p   == [db1[current_user.username] EXCEPT
                  !.preferences = dict_update(@, preferences)]
    IN  [db |-> SetItem(db1, current_user.username, p), response |-> p.preferences]

(***************************************************************************)
(* routers/agents.py                                                       *)
(*                                                                         *)
(* A Python str is the sequence of its characters.                         *)
(***************************************************************************)
UpperCase ==
    << "A", "B", "C", "D", "E", "F", "G", "H", "I", "J", "K", "L", "M",
       "N", "O", "P", "Q", "R", "S", "T", "U", "V", "W", "X", "Y", "Z" >>

LowerCase ==
    << "a", "b", "c", "d", "e", "f", "g", "h", "i", "j", "k", "l", "m",
       "n", "o", "p", "q", "r", "s", "t", "u", "v", "w", "x", "y", "z" >>

\* str.lower() of one character.
lower_char(c) ==
    IF \E n \in 1..26 : UpperCase[n] = c
    THEN LowerCase[CHOOSE n \in 1..26 : UpperCase[n] = c]
    ELSE c

\* str.lower()
lower(s) == [n \in 1..Len(s) |-> lower_char(s[n])]

\* needle in hay
Contains(needle, hay) ==
    \E n \in 0..(Len(hay) - Len(needle)) :
        SubSeq(hay, n + 1, n + Len(needle)) = needle

STUDY_GUIDE == << "s", "t", "u", "d", "y", " ", "g", "u", "i", "d", "e" >>

ASSIGNMENT == << "a", "s", "s", "i", "g", "n", "m", "e", "n", "t" >>

StudyGuideText ==
    << "I", "'", "v", "e", " ", "c", "r", "e", "a", "t", "e", "d", " ", "a",
       " ", "s", "t", "u", "d", "y", " ", "g", "u", "i", "d", "e", " ", "f",
       "o", "r", " ", "y", "o", "u", "r", " ", "t", "o", "p", "i", "c", ".",
       " ", "H", "e", "r", "e", " ", "a", "r", "e", " ", "t", "h", "e", " ",
       "k", "e", "y", " ", "p", "o", "i", "n", "t", "s", " ", "t", "o", " ",
       "f", "o", "c", "u", "s", " ", "o", "n", ".", ".", "." >>

AssignmentText ==
    << "I", "'", "l", "l", " ", "h", "e", "l", "p", " ", "y", "o", "u", " ",
       "w", "i", "t", "h", " ", "t", "h", "i", "s", " ", "a", "s", "s", "i",
       "g", "n", "m", "e", "n", "t", ".", " ", "L", "e", "t", "'", "s", " ",
       "b", "r", "e", "a", "k", " ", "i", "t", " ", "d", "o", "w", "n", " ",
       "s", "t", "e", "p", " ", "b", "y", " ", "s", "t", "e", "p", ".", ".",
       "." >>

GeneralPrefix ==
    << "I", " ", "u", "n", "d", "e", "r", "s", "t", "a", "n", "d", " ", "y",
       "o", "u", "'", "r", "e", " ", "a", "s", "k", "i", "n", "g", " ", "a",
       "b", "o", "u", "t", ":", " " >>

GeneralSuffix ==
    << ".", " ", "H", "o", "w", " ", "c", "a", "n", " ", "I", " ", "h", "e",
       "l", "p", " ", "y", "o", "u", " ", "w", "i", "t", "h", " ", "t", "h",
       "i", "s", " ", "t", "o", "p", "i", "c", "?" >>

StudyGuideResponse ==
    [response |-> StudyGuideText,
     sources  |-> << [title |-> "Textbook Chapter 5",
                      url   |-> "https://example.com/textbook/chapter5"],
                     [title |-> "Lecture Notes Week 3",
                      url   |-> "https://example.com/lectures/week3"] >>,
     context  |-> [topic      |-> "Machine Learning Fundamentals",
                   created_at |-> "2023-06-15T10:30:00Z"]]

AssignmentResponse ==
    [response |-> AssignmentText,
     sources  |-> << [title |-> "Assignment Guidelines",
                      url   |-> "https://example.com/assignments/guidelines"],
                     [title |-> "Related Examples",
                      url   |-> "https://example.com/examples"] >>,
     context  |-> [assignment_type |-> "Problem Set",
                   due_date        |-> "2023-06-20T23:59:00Z"]]

GeneralResponse(query) ==
    [response |-> GeneralPrefix \o query \o GeneralSuffix,
     sources  |-> << >>,
     context  |-> [query_type |-> "general",
                   timestamp  |-> "2023-06-15T10:30:00Z"]]

\* Python values a query can be: a str (with its characters) or something else.
PyStr(s) == [type |-> "str", value |-> s]

PyOther(type) == [type |-> type, value |-> << >>]

Raise(exc, msg) == [raised |-> Some([type |-> exc, msg |-> msg]), returned |-> None]

Return(v) == [raised |-> None, returned |-> Some(v)]

\* mock_agent_response, mutated: the two keyword tests in the opposite order.
mock_agent_response_assignment_first(query, context) ==
    IF query.type # "str"
    THEN Raise("AttributeError",
               "'" \o query.type \o "' object has no attribute 'lower'")
    ELSE IF Contains(ASSIGNMENT, lower(query.value)) THEN Return(AssignmentResponse)
    ELSE IF Contains(STUDY_GUIDE, lower(query.value)) THEN Return(StudyGuideResponse)
    ELSE Return(GeneralResponse(query.value))

\* mock_agent_response, once its delay is over: what it returns or raises.
mock_agent_response(query, context) ==
    IF query.type # "str"
    THEN Raise("AttributeError",
               "'" \o query.type \o "' object has no attribute 'lower'")
    ELSE IF Contains(STUDY_GUIDE, lower(query.value)) THEN Return(StudyGuideResponse)
    ELSE IF Contains(ASSIGNMENT, lower(query.value)) THEN Return(AssignmentResponse)
    ELSE Return(GeneralResponse(query.value))

(***************************************************************************)
(* The text frames the peers send, and json.loads on each of them: the     *)
(* value it returns, or the JSONDecodeError it raises.  A parsed value is  *)
(* described by its Python type and, for a dict, by what                   *)
(* .get("query", "") and .get("context", {}) return on it.                 *)
(***************************************************************************)
NotJson == "not json"

StudyGuideFrame == "{\"query\": \"Make me a Study Guide\"}"

ArrayFrame == "[1, 2]"

NumberQueryFrame == "{\"query\": 5}"

Frames == {NotJson, StudyGuideFrame, ArrayFrame, NumberQueryFrame}

MakeMeAStudyGuide ==
    << "M", "a", "k", "e", " ", "m", "e", " ", "a", " ", "S", "t", "u", "d",
       "y", " ", "G", "u", "i", "d", "e" >>

Hello == << "h", "e", "l", "l", "o" >>

Dict(query, context) == [type |-> "dict", query |-> query, context |-> context]

NotDict(type) == [type |-> type, query |-> PyOther("NoneType"), context |-> None]

json_loads(data) ==
    CASE data = NotJson ->
            Raise("JSONDecodeError", "Expecting value: line 1 column 1 (char 0)")
      [] data = StudyGuideFrame ->
            Return(Dict(PyStr(MakeMeAStudyGuide), Some(EmptyDict)))
      [] data = ArrayFrame ->
            Return(NotDict("list"))
      [] data = NumberQueryFrame ->
            Return(Dict(PyOther("int"), Some(EmptyDict)))

\* message.get("query", "") and message.get("context", {}), lines 153-154.
message_get(message) ==
    IF message.type # "dict"
    THEN Raise("AttributeError",
               "'" \o message.type \o "' object has no attribute 'get'")
    ELSE Return([query |-> message.query, context |-> message.context])

\* The frames the two except clauses of the loop send, lines 162-164 and 166-168.
InvalidJsonFrame == [error |-> "Invalid JSON format"]

ProcessingErrorFrame(e) == [error |-> "Error processing request: " \o e.msg]

\* Where a coroutine waits.  Every wait of the loop and of the synthesis is an
\* await (receive_text, asyncio.sleep, send_json): it hands the event loop back.
sleep_blocks(point) == point # "sleep"

Yields(point) == TRUE

(***************************************************************************)
(* Request bodies the clients send.                                        *)
(***************************************************************************)
NoUpdate ==
    [email |-> None, full_name |-> None, bio |-> None, avatar_url |-> None,
     preferences |-> None]

ProfileUpdates ==
    { [NoUpdate EXCEPT !.preferences = Some([study_reminder |-> TRUE])],
      [NoUpdate EXCEPT !.bio = Some("hello"),
                       !.preferences = Some([theme |-> "light", language |-> "fr"])],
      [NoUpdate EXCEPT !.email = Some("new@example.com"),
                       !.full_name = Some("New Name"),
                       !.avatar_url = Some("https://example.com/a.png")] }

PreferenceBodies ==
    { [theme |-> "dark"],
      [language |-> "en"],
      [notifications |-> FALSE, study_reminder |-> TRUE] }

(***************************************************************************)
(* routers/docs.py                                                         *)
(*                                                                         *)
(* The catalog is a module-level list that no route assigns to or mutates. *)
(* Titles and summaries are sequences of characters; a summary is optional *)
(* in DocItem, and item.get("summary") of an item without one is None.     *)
(***************************************************************************)
doc_items ==
    <<
      [ id |-> "architecture-overview",
        category_id |-> "architecture",
        title |->
            << "A", "r", "c", "h", "i", "t", "e", "c", "t", "u", "r", "e",
               " ", "O", "v", "e", "r", "v", "i", "e", "w" >>,
        path |-> "/docs/ARCHITECTURE.md",
        summary |-> Some(
            << "O", "v", "e", "r", "v", "i", "e", "w", " ", "o", "f", " ",
               "t", "h", "e", " ", "S", "t", "u", "d", "i", " ", "s", "y",
               "s", "t", "e", "m", " ", "a", "r", "c", "h", "i", "t", "e",
               "c", "t", "u", "r", "e" >>) ],
      [ id |-> "agent-architecture",
        category_id |-> "architecture",
        title |->
            << "A", "g", "e", "n", "t", " ", "A", "r", "c", "h", "i", "t",
               "e", "c", "t", "u", "r", "e" >>,
        path |-> "/docs/AGENT_ARCHITECTURE.md",
        summary |-> Some(
            << "D", "e", "t", "a", "i", "l", "s", " ", "o", "f", " ", "t",
               "h", "e", " ", "m", "u", "l", "t", "i", "-", "a", "g", "e",
               "n", "t", " ", "A", "I", " ", "s", "y", "s", "t", "e", "m" >>) ],
      [ id |-> "memory-system",
        category_id |-> "architecture",
        title |->
            << "M", "e", "m", "o", "r", "y", " ", "S", "y", "s", "t", "e",
               "m" >>,
        path |-> "/docs/MEMORY_SYSTEM.md",
        summary |-> Some(
            << "D", "o", "c", "u", "m", "e", "n", "t", "a", "t", "i", "o",
               "n", " ", "o", "f", " ", "t", "h", "e", " ", "m", "u", "l",
               "t", "i", "-", "l", "a", "y", "e", "r", "e", "d", " ", "m",
               "e", "m", "o", "r", "y", " ", "s", "y", "s", "t", "e", "m" >>) ],
      [ id |-> "web-architecture",
        category_id |-> "architecture",
        title |->
            << "W", "e", "b", " ", "A", "r", "c", "h", "i", "t", "e", "c",
               "t", "u", "r", "e" >>,
        path |-> "/docs/WEB_ARCHITECTURE.md",
        summary |-> Some(
            << "W", "e", "b", " ", "a", "p", "p", "l", "i", "c", "a", "t",
               "i", "o", "n", " ", "a", "r", "c", "h", "i", "t", "e", "c",
               "t", "u", "r", "e", " ", "a", "n", "d", " ", "c", "o", "m",
               "p", "o", "n", "e", "n", "t", "s" >>) ],
      [ id |-> "getting-started",
        category_id |-> "user-guides",
        title |->
            << "G", "e", "t", "t", "i", "n", "g", " ", "S", "t", "a", "r",
               "t", "e", "d" >>,
        path |-> "/docs/user-guides/GETTING_STARTED.md",
        summary |-> Some(
            << "G", "u", "i", "d", "e", " ", "f", "o", "r", " ", "n", "e",
               "w", " ", "u", "s", "e", "r", "s", " ", "t", "o", " ", "g",
               "e", "t", " ", "s", "t", "a", "r", "t", "e", "d", " ", "w",
               "i", "t", "h", " ", "S", "t", "u", "d", "i" >>) ],
      [ id |-> "canvas-integration",
        category_id |-> "user-guides",
        title |->
            << "C", "a", "n", "v", "a", "s", " ", "L", "M", "S", " ", "I",
               "n", "t", "e", "g", "r", "a", "t", "i", "o", "n" >>,
        path |-> "/docs/user-guides/CANVAS_INTEGRATION.md",
        summary |-> Some(
            << "H", "o", "w", " ", "t", "o", " ", "c", "o", "n", "n", "e",
               "c", "t", " ", "S", "t", "u", "d", "i", " ", "w", "i", "t",
               "h", " ", "C", "a", "n", "v", "a", "s", " ", "L", "M", "S" >>) ],
      [ id |-> "study-guide-creation",
        category_id |-> "user-guides",
        title |->
            << "C", "r", "e", "a", "t", "i", "n", "g", " ", "S", "t", "u",
               "d", "y", " ", "G", "u", "i", "d", "e", "s" >>,
        path |-> "/docs/user-guides/STUDY_GUIDES.md",
        summary |-> Some(
            << "H", "o", "w", " ", "t", "o", " ", "c", "r", "e", "a", "t",
               "e", " ", "a", "n", "d", " ", "u", "s", "e", " ", "p", "e",
               "r", "s", "o", "n", "a", "l", "i", "z", "e", "d", " ", "s",
               "t", "u", "d", "y", " ", "g", "u", "i", "d", "e", "s" >>) ],
      [ id |-> "api-overview",
        category_id |-> "api",
        title |->
            << "A", "P", "I", " ", "O", "v", "e", "r", "v", "i", "e", "w" >>,
        path |-> "/docs/api/OVERVIEW.md",
        summary |-> Some(
            << "O", "v", "e", "r", "v", "i", "e", "w", " ", "o", "f", " ",
               "t", "h", "e", " ", "S", "t", "u", "d", "i", " ", "A", "P",
               "I" >>) ],
      [ id |-> "authentication",
        category_id |-> "api",
        title |->
            << "A", "u", "t", "h", "e", "n", "t", "i", "c", "a", "t", "i",
               "o", "n" >>,
        path |-> "/docs/api/AUTHENTICATION.md",
        summary |-> Some(
            << "A", "P", "I", " ", "a", "u", "t", "h", "e", "n", "t", "i",
               "c", "a", "t", "i", "o", "n", " ", "m", "e", "t", "h", "o",
               "d", "s", " ", "a", "n", "d", " ", "e", "x", "a", "m", "p",
               "l", "e", "s" >>) ],
      [ id |-> "deployment-guide",
        category_id |-> "deployment",
        title |->
            << "D", "e", "p", "l", "o", "y", "m", "e", "n", "t", " ", "G",
               "u", "i", "d", "e" >>,
        path |-> "/docs/DEPLOYMENT.md",
        summary |-> Some(
            << "G", "u", "i", "d", "e", " ", "f", "o", "r", " ", "d", "e",
               "p", "l", "o", "y", "i", "n", "g", " ", "S", "t", "u", "d",
               "i", " ", "i", "n", " ", "p", "r", "o", "d", "u", "c", "t",
               "i", "o", "n" >>) ]
    >>

\* The condition of the loop body, tested on the title alone.
item_matches_title_only(item, query) ==
    Contains(lower(query), lower(item.title))

\* query.lower() in item["title"].lower() or
\* (item.get("summary") and query.lower() in item["summary"].lower())
item_matches(item, query) ==
    \/ Contains(lower(query), lower(item.title))
    \/ /\ item.summary # None
       /\ Val(item.summary) # << >>
       /\ Contains(lower(query), lower(Val(item.summary)))

\* for item in doc_items: if ...: results.append(item)
RECURSIVE search_loop(_, _, _)
search_loop(items, query, results) ==
    IF items = << >> THEN results
    ELSE search_loop(Tail(items), query,
                     IF item_matches(Head(items), query)
                     THEN Append(results, Head(items))
                     ELSE results)

search_docs(query) == search_loop(doc_items, query, << >>)

(***************************************************************************)
(* The queries, channels and requests of the query facade.                  *)
(***************************************************************************)
QueryParts ==
    { STUDY_GUIDE,
      << "S", "t", "u", "d", "y", " ", "G", "u", "i", "d", "e" >>,
      << "S", "T", "U", "D", "Y", " ", "G", "U", "I", "D", "E" >>,
      << "s", "t", "u", "d", "y" >>,
      << "g", "u", "i", "d", "e" >>,
      << "s", "t", "u", "d", "y", "-", "g", "u", "i", "d", "e" >>,
      ASSIGNMENT,
      << "A", "s", "s", "i", "g", "n", "M", "E", "N", "T" >>,
      << "a", "s", "s", "i", "g", "n" >>,
      << "m", "e", "n", "t" >>,
      << " " >>,
      << "Q", "u", "i", "z", "?" >> }

RECURSIVE QueriesOf(_)
QueriesOf(n) ==
    IF n = 0 THEN { << >> }
    ELSE QueriesOf(n - 1) \cup { q \o p : q \in QueriesOf(n - 1), p \in QueryParts }

Queries == QueriesOf(MaxParts)

Contexts == { None, Some(EmptyDict), Some([topic |-> "assignment study guide"]) }

Chans == {"ws1", "ws2"}

Posts == {"post1"}

PostQueries == {Hello, MakeMeAStudyGuide}

\* What send_json does on a channel whose peer is gone and on which no call has
\* failed yet: the ASGI server drops the frame and the call returns, or it
\* reports the broken connection and the call raises WebSocketDisconnect.
SendOutcomes == {"returns", "WebSocketDisconnect"}

SendPoints == {"send", "send_invalid", "send_error"}

\* The texts searched for: up to MaxParts of these pieces, put together.
SearchParts ==
    { ASSIGNMENT,
      << "a" >>,
      << "A", "R", "C", "H" >>,
      << "i", "t", "e", "c", "t", "u", "r", "e" >>,
      << "S", "t", "u", "d", "i" >>,
      << " " >>,
      << "g", "u", "i", "d", "e" >>,
      << "G", "U", "I", "D", "E" >>,
      << "s" >>,
      << "O", "v", "e", "r", "v", "i", "e", "w" >>,
      << " ", "o", "f" >>,
      << "L", "M", "S" >> }

RECURSIVE SearchQueriesOf(_)
SearchQueriesOf(n) ==
    IF n = 0 THEN { << >> }
    ELSE SearchQueriesOf(n - 1) \cup
         { q \o p : q \in SearchQueriesOf(n - 1), p \in SearchParts }

SearchQueries == SearchQueriesOf(MaxParts)

VARIABLES
    db,        \* fake_profiles_db: username -> profile record
    reqs,      \* the /api/users requests accepted so far, in order of acceptance
    ran,       \* indexes into reqs, in the order the event loop ran the handlers
    query,     \* the query text handed to the synthesis
    context,   \* the context handed along with it
    result,    \* None, or what the synthesis returned for query and context
    ws_pc,     \* per channel: where websocket_endpoint stands
    peer,      \* per channel: "open", or "closed" once the peer has disconnected
    inbox,     \* per channel: frames the peer has sent that are not received yet
    received,  \* per channel: the frames receive_text has returned, in order
    sent,      \* per channel: the frames send_json has delivered, in order
    pending,   \* per channel: the parsed query being synthesised, or the frame to send
    observed,  \* per channel: a call on the websocket has failed for the disconnect
    posts,     \* per POST /query request: its position, query and response
    behind,    \* per channel or request: the ones that were in their delay when its
               \* interaction began and have been in it ever since
    search_query,  \* the query parameter of GET /search
    results        \* None, or the list search_docs returned for search_query

pvars == <<db, reqs, ran>>

svars == <<query, context, result>>

wvars == <<ws_pc, peer, inbox, received, sent, pending, observed, posts, behind>>

dvars == <<search_query, results>>

vars == <<pvars, svars, wvars, dvars>>

(***************************************************************************)
(* The state after the modules are loaded.                                 *)
(***************************************************************************)
PInit ==
    /\ db = fake_profiles_db
    /\ reqs = << >>
    /\ ran = << >>

SIdle ==
    /\ query = << >>
    /\ context = None
    /\ result = None

SInit ==
    /\ query \in Queries
    /\ context \in Contexts
    /\ result = None

WInit ==
    /\ ws_pc = [c \in Chans |-> "idle"]
    /\ peer = [c \in Chans |-> "open"]
    /\ inbox = [c \in Chans |-> << >>]
    /\ received = [c \in Chans |-> << >>]
    /\ sent = [c \in Chans |-> << >>]
    /\ pending = [c \in Chans |-> << >>]
    /\ observed = [c \in Chans |-> FALSE]
    /\ posts = [q \in Posts |-> [pc |-> "none", query |-> << >>, response |-> << >>]]
    /\ behind = [t \in Chans \cup Posts |-> {}]

DIdle ==
    /\ search_query = << >>
    /\ results = None

DInit ==
    /\ search_query \in SearchQueries
    /\ results = None

\* No request has been accepted, no channel established.
Init == PInit /\ SIdle /\ WInit /\ DIdle

\* The same, with a query and a context chosen for the synthesis.
SynthInit == PInit /\ SInit /\ WInit /\ DIdle

\* The same, with a text chosen for the search.
SearchInit == PInit /\ SIdle /\ WInit /\ DInit

(***************************************************************************)
(* The profile store: requests of /api/users.                              *)
(***************************************************************************)
Request(op, username, body) ==
    [op |-> op, user |-> username, body |-> body, pc |-> "pending",
     response |-> EmptyDict]

Requests ==
    UNION { { Request("get_profile", u, EmptyDict),
              Request("get_preferences", u, EmptyDict) }
            \cup { Request("update_profile", u, b) : b \in ProfileUpdates }
            \cup { Request("update_preferences", u, b) : b \in PreferenceBodies }
          : u \in Users }

\* What the handler of request r does to the store, and what it answers.
Handle(r) ==
    CASE r.op = "get_profile"        -> get_user_profile(db, User(r.user))
      [] r.op = "update_profile"     -> update_user_profile(db, r.body, User(r.user))
      [] r.op = "get_preferences"    -> get_user_preferences(db, User(r.user))
      [] r.op = "update_preferences" -> update_user_preferences(db, r.body, User(r.user))

\* A client's request passes the identity gate and is queued for its handler.
Accept ==
    /\ Len(reqs) < MaxReqs
    /\ \E r \in Requests : reqs' = Append(reqs, r)
    /\ UNCHANGED <<db, ran>>
    /\ UNCHANGED <<svars, wvars, dvars>>

\* The event loop runs the handler of one pending request to completion.
Run(i) ==
    /\ reqs[i].pc = "pending"
    /\ LET out == Handle(reqs[i])
       IN  /\ db' = out.db
           /\ reqs' = [reqs EXCEPT ![i].pc = "done", ![i].response = out.response]
           /\ ran' = Append(ran, i)
    /\ UNCHANGED <<svars, wvars, dvars>>

RunSome == \E i \in 1..Len(reqs) : Run(i)

PNext == Accept \/ RunSome

\* The event loop runs every accepted request's handler eventually.
ProfileSpec == Init /\ [][PNext]_vars /\ WF_vars(RunSome)

(***************************************************************************)
(* The synthesis on its own: a query text and a context are chosen, and    *)
(* mock_agent_response is applied to them.                                 *)
(***************************************************************************)
\* response = await mock_agent_response(query.query, query.context)
Synthesize ==
    /\ result = None
    /\ result' = Some(Val(mock_agent_response(PyStr(query), context).returned))
    /\ UNCHANGED <<query, context>>
    /\ UNCHANGED <<pvars, wvars, dvars>>

SNext == Synthesize

SynthSpec == SynthInit /\ [][SNext]_vars

(***************************************************************************)
(* The search on its own: a text is chosen, and search_docs is applied to  *)
(* it.  The handler has no await: it runs from its first line to its       *)
(* return in one step of the event loop.                                   *)
(***************************************************************************)
\* GET /api/docs/search?query=...
Search ==
    /\ results = None
    /\ results' = Some(search_docs(search_query))
    /\ UNCHANGED search_query
    /\ UNCHANGED <<pvars, svars, wvars>>

DNext == Search

DocSpec == SearchInit /\ [][DNext]_vars

(***************************************************************************)
(* The query facade: POST /query requests and /ws channels on one event    *)
(* loop.  A coroutine runs from one await to the next without another one  *)
(* being scheduled; at an await any coroutine that is ready may run.       *)
(***************************************************************************)
Point(t) == IF t \in Chans THEN ws_pc[t] ELSE posts[t].pc

\* The channels and requests that are in their synthesis delay.
Sleeping == {t \in Chans \cup Posts : Point(t) = "sleep"}

\* Coroutine t can be scheduled: no other coroutine holds the event loop.
LoopFree(t) == \A o \in (Chans \cup Posts) \ {t} : Yields(Point(o))

TotalFrames ==
    LET RECURSIVE Sum(_)
        Sum(S) == IF S = {} THEN 0
                  ELSE LET c == CHOOSE x \in S : TRUE
                       IN  Len(received[c]) + Len(inbox[c]) + Sum(S \ {c})
    IN  Sum(Chans)

\* When each step of a coroutine can be taken: the coroutine stands at that
\* point, what it waits for is there, and the event loop is free for it.
CanConnect(c) == ws_pc[c] = "idle" /\ peer[c] = "open" /\ LoopFree(c)

CanReceive(c) ==
    /\ ws_pc[c] = "receive"
    /\ inbox[c] # << >> \/ peer[c] = "closed"
    /\ LoopFree(c)

CanWake(c) == ws_pc[c] = "sleep" /\ LoopFree(c)

CanSend(c) == ws_pc[c] \in SendPoints /\ LoopFree(c)

CanPostQuery(q) == posts[q].pc = "none" /\ LoopFree(q)

CanPostWake(q) == posts[q].pc = "sleep" /\ LoopFree(q)

\* await websocket.accept()
Connect(c) ==
    /\ CanConnect(c)
    /\ ws_pc' = [ws_pc EXCEPT ![c] = "receive"]
    /\ UNCHANGED <<peer, inbox, received, sent, pending, observed, posts, behind>>
    /\ UNCHANGED <<pvars, svars, dvars>>

\* The peer sends a text frame.
PeerSend(c) ==
    /\ ws_pc[c] # "idle" /\ peer[c] = "open"
    /\ TotalFrames < MaxFrames
    /\ \E f \in Frames : inbox' = [inbox EXCEPT ![c] = Append(@, f)]
    /\ UNCHANGED <<ws_pc, peer, received, sent, pending, observed, posts, behind>>
    /\ UNCHANGED <<pvars, svars, dvars>>

\* The peer closes the channel.
PeerClose(c) ==
    /\ ws_pc[c] # "idle" /\ peer[c] = "open"
    /\ peer' = [peer EXCEPT ![c] = "closed"]
    /\ UNCHANGED <<ws_pc, inbox, received, sent, pending, observed, posts, behind>>
    /\ UNCHANGED <<pvars, svars, dvars>>

\* Lines 152-154, mutated: without the `except json.JSONDecodeError` clause a
\* parse failure falls to `except Exception`.
AfterReceive_no_decode_clause(data) ==
    LET parsed == json_loads(data)
        got    == message_get(Val(parsed.returned))
    IN  IF parsed.raised # None
        THEN [pc |-> "send_error", pending |-> ProcessingErrorFrame(Val(parsed.raised))]
        ELSE IF got.raised # None
        THEN [pc |-> "send_error", pending |-> ProcessingErrorFrame(Val(got.raised))]
        ELSE [pc |-> "sleep", pending |-> Val(got.returned)]

\* Lines 152-154 on the text receive_text returned: where the loop goes next,
\* and with what in hand.
AfterReceive(data) ==
    LET parsed == json_loads(data)
        got    == message_get(Val(parsed.returned))
    IN  IF parsed.raised # None
        THEN [pc |-> "send_invalid", pending |-> InvalidJsonFrame]
        ELSE IF got.raised # None
        THEN [pc |-> "send_error", pending |-> ProcessingErrorFrame(Val(got.raised))]
        ELSE [pc |-> "sleep", pending |-> Val(got.returned)]

\* data = await websocket.receive_text() returns the next frame, or raises
\* WebSocketDisconnect when the peer is gone and nothing is left to read.
Receive(c) ==
    /\ CanReceive(c)
    /\ IF inbox[c] # << >>
       THEN LET next == AfterReceive(Head(inbox[c]))
            IN  /\ received' = [received EXCEPT ![c] = Append(@, Head(inbox[c]))]
                /\ inbox' = [inbox EXCEPT ![c] = Tail(@)]
                /\ ws_pc' = [ws_pc EXCEPT ![c] = next.pc]
                /\ pending' = [pending EXCEPT ![c] = next.pending]
                /\ behind' = [behind EXCEPT ![c] = Sleeping \ {c}]
                /\ UNCHANGED observed
       ELSE /\ ws_pc' = [ws_pc EXCEPT ![c] = "closed"]
            /\ observed' = [observed EXCEPT ![c] = TRUE]
            /\ UNCHANGED <<inbox, received, pending, behind>>
    /\ UNCHANGED <<peer, sent, posts>>
    /\ UNCHANGED <<pvars, svars, dvars>>

\* Line 157, mutated: a failure of the synthesis is swallowed (`pass`) and the
\* loop goes back to waiting.
AfterSleep_swallows(p) ==
    LET r == mock_agent_response(p.query, p.context)
    IN  IF r.raised # None
        THEN [pc |-> "receive", pending |-> << >>]
        ELSE [pc |-> "send", pending |-> Val(r.returned)]

\* Line 157 once the delay is over: the synthesis returns or raises.
AfterSleep(p) ==
    LET r == mock_agent_response(p.query, p.context)
    IN  IF r.raised # None
        THEN [pc |-> "send_error", pending |-> ProcessingErrorFrame(Val(r.raised))]
        ELSE [pc |-> "send", pending |-> Val(r.returned)]

\* await asyncio.sleep(1) is over.
Wake(c) ==
    /\ CanWake(c)
    /\ LET next == AfterSleep(pending[c])
       IN  /\ ws_pc' = [ws_pc EXCEPT ![c] = next.pc]
           /\ pending' = [pending EXCEPT ![c] = next.pending]
    /\ behind' = [t \in Chans \cup Posts |-> behind[t] \ {c}]
    /\ UNCHANGED <<peer, inbox, received, sent, observed, posts>>
    /\ UNCHANGED <<pvars, svars, dvars>>

\* Where an exception raised by send_json goes, by the try statements of lines
\* 145-171: one raised at line 160 is caught by `except Exception` (which also
\* matches WebSocketDisconnect), one raised in an except clause leaves the inner
\* try and is caught by the outer one only when it is a WebSocketDisconnect.
AfterSendRaises(point, exc) ==
    IF point = "send"
    THEN [pc |-> "send_error", pending |-> ProcessingErrorFrame(exc)]
    ELSE IF exc.type = "WebSocketDisconnect"
    THEN [pc |-> "closed", pending |-> << >>]
    ELSE [pc |-> "crashed", pending |-> << >>]

\* The exception a failed send raises, with its str(): a send on a channel on
\* which a call has already failed raises RuntimeError.
Exc(type) ==
    [type |-> type,
     msg  |-> IF type = "RuntimeError"
              THEN "Cannot call \"send\" once a close message has been sent."
              ELSE ""]

\* await websocket.send_json(...) at line 160, 162 or 166.
Send(c) ==
    /\ CanSend(c)
    /\ IF peer[c] = "open"
       THEN /\ sent' = [sent EXCEPT ![c] = Append(@, pending[c])]
            /\ ws_pc' = [ws_pc EXCEPT ![c] = "receive"]
            /\ pending' = [pending EXCEPT ![c] = << >>]
            /\ UNCHANGED observed
       ELSE \E outcome \in (IF observed[c] THEN {"RuntimeError"} ELSE SendOutcomes) :
              IF outcome = "returns"
              THEN /\ ws_pc' = [ws_pc EXCEPT ![c] = "receive"]
                   /\ pending' = [pending EXCEPT ![c] = << >>]
                   /\ UNCHANGED <<sent, observed>>
              ELSE LET next == AfterSendRaises(ws_pc[c], Exc(outcome))
                   IN  /\ ws_pc' = [ws_pc EXCEPT ![c] = next.pc]
                       /\ pending' = [pending EXCEPT ![c] = next.pending]
                       /\ observed' = [observed EXCEPT ![c] = TRUE]
                       /\ UNCHANGED sent
    /\ UNCHANGED <<peer, inbox, received, posts, behind>>
    /\ UNCHANGED <<pvars, svars, dvars>>

\* POST /query is accepted: query_agent calls mock_agent_response, which sleeps.
PostQuery(q) ==
    /\ CanPostQuery(q)
    /\ \E text \in PostQueries :
         posts' = [posts EXCEPT ![q] = [pc |-> "sleep", query |-> text,
                                        response |-> << >>]]
    /\ behind' = [behind EXCEPT ![q] = Sleeping \ {q}]
    /\ UNCHANGED <<ws_pc, peer, inbox, received, sent, pending, observed>>
    /\ UNCHANGED <<pvars, svars, dvars>>

\* The delay of a POST /query is over: the response is returned.
PostWake(q) ==
    /\ CanPostWake(q)
    /\ posts' = [posts EXCEPT
                   ![q].pc = "done",
                   ![q].response =
                       Val(mock_agent_response(PyStr(posts[q].query), None).returned)]
    /\ behind' = [t \in Chans \cup Posts |-> behind[t] \ {q}]
    /\ UNCHANGED <<ws_pc, peer, inbox, received, sent, pending, observed>>
    /\ UNCHANGED <<pvars, svars, dvars>>

Connects == \E c \in Chans : Connect(c)

PeerSends == \E c \in Chans : PeerSend(c)

PeerCloses == \E c \in Chans : PeerClose(c)

Receives == \E c \in Chans : Receive(c)

Wakes == \E c \in Chans : Wake(c)

Sends == \E c \in Chans : Send(c)

PostQueries_ == \E q \in Posts : PostQuery(q)

PostWakes == \E q \in Posts : PostWake(q)

WNext ==
    \/ Connects \/ PeerSends \/ PeerCloses \/ Receives \/ Wakes \/ Sends
    \/ PostQueries_ \/ PostWakes

ChannelSpec == Init /\ [][WNext]_vars

(***************************************************************************)
(* Vocabulary of the profile-store claims                                  *)
(***************************************************************************)
\* This step runs the handler of request i.
Ran(i) == reqs[i].pc = "pending" /\ reqs'[i].pc = "done"

IsWrite(r) == r.op \in {"update_profile", "update_preferences"}

\* The preference partial a write request carries (None when it carries none).
Partial(r) ==
    CASE r.op = "update_profile"     -> r.body.preferences
      [] r.op = "update_preferences" -> Some(r.body)
      [] OTHER                       -> None

\* The preferences a finished request was answered with.
AnsweredPreferences(r) ==
    IF r.op \in {"get_profile", "update_profile"}
    THEN r.response.preferences
    ELSE r.response

StoredPreferences(d, u) == IF u \in DOMAIN d THEN d[u].preferences ELSE EmptyDict

\* Request j's handler ran before request i's.
RanBefore(j, i) ==
    \E a, b \in 1..Len(ran) : a < b /\ ran[a] = j /\ ran[b] = i

\* No write for identity u has been performed before request i ran.
NoWriteBefore(i, u) ==
    \A j \in 1..Len(reqs) :
        (reqs[j].user = u /\ IsWrite(reqs[j])) => ~RanBefore(j, i)

(***************************************************************************)
(* C1.  update_profile with a non-null preferences partial P merges: every *)
(* preference key of the identity's record that is not a key of P stays    *)
(* present with its previous value, every key of P is present with P's     *)
(* value afterwards, and the returned record carries the merged mapping.   *)
(***************************************************************************)
C1_Step(i) ==
    (Ran(i) /\ reqs[i].op = "update_profile" /\ reqs[i].body.preferences # None) =>
        LET u   == reqs[i].user
            P   == Val(reqs[i].body.preferences)
            old == StoredPreferences(db, u)
            new == StoredPreferences(db', u)
        IN  /\ u \in DOMAIN db'
            /\ \A k \in (DOMAIN old) \ (DOMAIN P) : k \in DOMAIN new /\ new[k] = old[k]
            /\ \A k \in DOMAIN P : k \in DOMAIN new /\ new[k] = P[k]
            /\ reqs'[i].response.preferences = new

C1_UpdateProfileMerges == [][\A i \in 1..Len(reqs) : C1_Step(i)]_pvars

\* The seeded record was updated with {theme: "light", language: "fr"}: theme is
\* overwritten, language is added, the two unmentioned keys are kept.
C1_Witness ==
    \E i \in 1..Len(reqs) :
        /\ reqs[i].pc = "done" /\ reqs[i].op = "update_profile"
        /\ reqs[i].user = "johndoe"
        /\ reqs[i].body.preferences = Some([theme |-> "light", language |-> "fr"])
        /\ reqs[i].response.preferences =
              [theme |-> "light", notifications |-> TRUE, study_reminder |-> TRUE,
               language |-> "fr"]
        /\ db["johndoe"].preferences = reqs[i].response.preferences

(***************************************************************************)
(* C2.  As claimed: for every valid identity, get_profile run before any   *)
(* write for that identity answers with the preferences                    *)
(* {theme: "light", notifications: true, study_reminder: false}.           *)
(***************************************************************************)
C2_Original ==
    \A i \in 1..Len(reqs) :
        (reqs[i].pc = "done" /\ reqs[i].op = "get_profile"
            /\ NoWriteBefore(i, reqs[i].user)) =>
        reqs[i].response.preferences =
            [theme |-> "light", notifications |-> TRUE, study_reminder |-> FALSE]

(***************************************************************************)
(* C2, amended.  get_profile run before any write for the identity answers *)
(* with the default preferences for every identity that has no record      *)
(* seeded at process start; for the seeded identity "johndoe" it answers   *)
(* with the seeded {theme: "dark", notifications: true,                    *)
(* study_reminder: true}.                                                  *)
(***************************************************************************)
C2_DefaultsUnlessSeeded ==
    \A i \in 1..Len(reqs) :
        (reqs[i].pc = "done" /\ reqs[i].op = "get_profile"
            /\ NoWriteBefore(i, reqs[i].user)) =>
        reqs[i].response.preferences =
            IF reqs[i].user = "johndoe"
            THEN [theme |-> "dark", notifications |-> TRUE, study_reminder |-> TRUE]
            ELSE [theme |-> "light", notifications |-> TRUE, study_reminder |-> FALSE]

C2_Witness ==
    \E i \in 1..Len(reqs) :
        /\ reqs[i].pc = "done" /\ reqs[i].op = "get_profile"
        /\ reqs[i].user = "alice"
        /\ NoWriteBefore(i, "alice")
        /\ reqs[i].response.preferences =
              [theme |-> "light", notifications |-> TRUE, study_reminder |-> FALSE]

(***************************************************************************)
(* C3.  Two writes for the same identity that carry preference partials    *)
(* with disjoint keys have both been performed, and a key of one of them   *)
(* is absent from the stored preferences: an update was lost.              *)
(***************************************************************************)
LostUpdate ==
    \E i, j \in 1..Len(reqs) :
        /\ i # j
        /\ reqs[i].pc = "done" /\ reqs[j].pc = "done"
        /\ reqs[i].user = reqs[j].user
        /\ Partial(reqs[i]) # None /\ Partial(reqs[j]) # None
        /\ (DOMAIN Val(Partial(reqs[i]))) \cap (DOMAIN Val(Partial(reqs[j]))) = {}
        /\ \E k \in DOMAIN Val(Partial(reqs[i])) :
              k \notin DOMAIN StoredPreferences(db, reqs[i].user)

C4_Step(i) ==
    /\ (Ran(i) /\ reqs[i].op = "get_preferences") =>
          LET u == reqs[i].user
          IN  /\ db' = db
              /\ u \notin DOMAIN db =>
                    /\ u \notin DOMAIN db'
                    /\ reqs'[i].response =
                          [theme |-> "light", notifications |-> TRUE,
                           study_reminder |-> FALSE]
              /\ u \in DOMAIN db => reqs'[i].response = db[u].preferences
    /\ (Ran(i) /\ reqs[i].op = "get_profile") =>
          /\ reqs[i].user \in DOMAIN db'
          /\ reqs'[i].response = db'[reqs[i].user]

C4_GetPreferencesReadsOnly == [][\A i \in 1..Len(reqs) : C4_Step(i)]_pvars

\* get_preferences has answered with the defaults for an identity that still
\* has no record.
C4_Witness ==
    \E i \in 1..Len(reqs) :
        /\ reqs[i].pc = "done" /\ reqs[i].op = "get_preferences"
        /\ reqs[i].user \notin DOMAIN db
        /\ reqs[i].response =
              [theme |-> "light", notifications |-> TRUE, study_reminder |-> FALSE]

(***************************************************************************)
(* C5.  update_preferences(identity, M) for an identity without a record   *)
(* creates a record whose preferences are exactly M and answers M, and     *)
(* every get_profile or get_preferences for that identity that runs later, *)
(* with no other write in between, is answered with exactly M; for an      *)
(* identity with a record it answers the stored preferences with M's keys  *)
(* added or overwritten and the other keys kept.                           *)
(***************************************************************************)
C5_Step(i) ==
    (Ran(i) /\ reqs[i].op = "update_preferences") =>
        LET u   == reqs[i].user
            M   == reqs[i].body
            new == reqs'[i].response
        IN  /\ u \in DOMAIN db' /\ db'[u].preferences = new
            /\ u \notin DOMAIN db => new = M
            /\ u \in DOMAIN db =>
                  /\ DOMAIN new = (DOMAIN db[u].preferences) \cup (DOMAIN M)
                  /\ \A k \in DOMAIN M : new[k] = M[k]
                  /\ \A k \in (DOMAIN db[u].preferences) \ (DOMAIN M) :
                        new[k] = db[u].preferences[k]

\* Request i created its identity's record: nothing for that identity ran before
\* it and no record was seeded.
Created(i) ==
    /\ reqs[i].user \notin DOMAIN fake_profiles_db
    /\ \A j \in 1..Len(reqs) : reqs[j].user = reqs[i].user => ~RanBefore(j, i)

\* No write for i's identity ran between request i and request g.
NoWriteBetween(i, g) ==
    \A j \in 1..Len(reqs) :
        (j # i /\ reqs[j].user = reqs[i].user /\ IsWrite(reqs[j])) =>
            ~(RanBefore(i, j) /\ RanBefore(j, g))

C5_LaterReads ==
    \A i, g \in 1..Len(reqs) :
        (/\ reqs[i].op = "update_preferences" /\ reqs[i].pc = "done" /\ Created(i)
         /\ reqs[g].op \in {"get_profile", "get_preferences"}
         /\ reqs[g].user = reqs[i].user
         /\ RanBefore(i, g) /\ NoWriteBetween(i, g)) =>
        AnsweredPreferences(reqs[g]) = reqs[i].body

C5_UpdatePreferences ==
    /\ [][\A i \in 1..Len(reqs) : C5_Step(i)]_pvars
    /\ []C5_LaterReads

\* A record was created by update_preferences({theme: "dark"}), and a later
\* get_profile was answered with exactly {theme: "dark"}, not the defaults.
C5_Witness ==
    \E i, g \in 1..Len(reqs) :
        /\ reqs[i].op = "update_preferences" /\ reqs[i].pc = "done" /\ Created(i)
        /\ reqs[i].body = [theme |-> "dark"]
        /\ reqs[i].response = [theme |-> "dark"]
        /\ reqs[g].op = "get_profile" /\ reqs[g].user = reqs[i].user
        /\ RanBefore(i, g) /\ NoWriteBetween(i, g)
        /\ reqs[g].response.preferences = [theme |-> "dark"]

(***************************************************************************)
(* Vocabulary of the query-facade claims                                   *)
(***************************************************************************)
IsQueryResponse(frame) == DOMAIN frame = {"response", "sources", "context"}

IsErrorFrame(frame) == DOMAIN frame = {"error"}

\* The frame parses, to an object whose query is a string: synthesis succeeds.
Succeeds(data) ==
    /\ json_loads(data).raised = None
    /\ Val(json_loads(data).returned).type = "dict"
    /\ Val(json_loads(data).returned).query.type = "str"

\* Channel c holds a frame it has received and not answered yet.
InHand(c) == ws_pc[c] \in {"sleep"} \cup SendPoints

\* This step is a send_json call on channel c.
SendAttempt(c) == ws_pc[c] \in SendPoints /\ ws_pc'[c] # ws_pc[c]

(***************************************************************************)
(* C6.  On an established channel the frame "not json" is answered with    *)
(* exactly {"error": "Invalid JSON format"}, the loop then goes back to    *)
(* waiting with the channel open, and a valid frame that follows on the    *)
(* same channel is answered with a QueryResponse-shaped frame.             *)
(***************************************************************************)
C6_Answers ==
    \A c \in Chans :
        /\ \A n \in 1..Len(sent[c]) :
              received[c][n] = NotJson =>
                  sent[c][n] = [error |-> "Invalid JSON format"]
        /\ \A m, n \in 1..Len(sent[c]) :
              (m < n /\ received[c][m] = NotJson /\ Succeeds(received[c][n])) =>
                  IsQueryResponse(sent[c][n])

C6_Step(c) ==
    (/\ peer[c] = "open" /\ InHand(c)
     /\ received[c][Len(received[c])] = NotJson
     /\ ws_pc'[c] # ws_pc[c]) =>
        /\ ws_pc'[c] = "receive"
        /\ Len(sent'[c]) = Len(received[c])

C6_InvalidJsonKeepsChannel ==
    /\ []C6_Answers
    /\ [][\A c \in Chans : C6_Step(c)]_vars

\* A channel received "not json" and then a valid frame, and has sent the
\* error frame and then the study-guide response.
C6_Witness ==
    \E c \in Chans :
        /\ received[c] = << NotJson, StudyGuideFrame >>
        /\ Len(sent[c]) = 2
        /\ sent[c][1] = [error |-> "Invalid JSON format"]
        /\ IsQueryResponse(sent[c][2])
        /\ ws_pc[c] = "receive"

(***************************************************************************)
(* C7.  On a channel the peer keeps open, the server sends exactly one     *)
(* frame per text frame received, in the order received: a QueryResponse   *)
(* when the frame parses and synthesis succeeds, an {error: string} frame  *)
(* otherwise; no frame is answered zero or two times, and a processing     *)
(* failure does not close the channel.                                     *)
(***************************************************************************)
C7_OneFramePerFrame ==
    \A c \in Chans :
        peer[c] = "open" =>
            /\ ws_pc[c] \notin {"closed", "crashed"}
            /\ Len(sent[c]) = Len(received[c]) - (IF InHand(c) THEN 1 ELSE 0)
            /\ \A n \in 1..Len(sent[c]) :
                  IF Succeeds(received[c][n])
                  THEN /\ IsQueryResponse(sent[c][n])
                       /\ Return(sent[c][n]) =
                            mock_agent_response(
                                Val(json_loads(received[c][n]).returned).query, None)
                  ELSE IsErrorFrame(sent[c][n])

\* An open channel has answered a non-string query with an error frame and
\* the valid frame after it with a QueryResponse; another frame is the array.
C7_Witness ==
    \E c \in Chans :
        /\ peer[c] = "open"
        /\ received[c] = << NumberQueryFrame, StudyGuideFrame >>
        /\ Len(sent[c]) = 2
        /\ IsErrorFrame(sent[c][1])
        /\ IsQueryResponse(sent[c][2])

(***************************************************************************)
(* C8.  Once a call on the websocket has failed because the peer is gone,  *)
(* the server attempts no further send on that channel, and the loop ends  *)
(* cleanly: no exception leaves websocket_endpoint.                        *)
(***************************************************************************)
C8_CleanDisconnect ==
    /\ [][\A c \in Chans : observed[c] => ~SendAttempt(c)]_vars
    /\ [](\A c \in Chans : ws_pc[c] # "crashed")

(***************************************************************************)
(* C9.  The synthesis is a case-insensitive, first-match-wins keyword rule *)
(* on the query text: "study guide" (also next to "assignment") gives the  *)
(* study-guide response with exactly 2 sources and context.topic =         *)
(* "Machine Learning Fundamentals"; otherwise "assignment" gives the       *)
(* assignment response with 2 other sources and an assignment-type and     *)
(* due-date context; otherwise sources is empty, the body contains the     *)
(* query text verbatim and the context is of query type general.  The      *)
(* supplied context never affects the result.                              *)
(***************************************************************************)
SameIgnoringCase(a, b) ==
    a = b \/ \E n \in 1..26 : {a, b} = {UpperCase[n], LowerCase[n]}

\* The text contains the keyword, in whatever case.
HasKeyword(keyword, text) ==
    \E n \in 0..(Len(text) - Len(keyword)) :
        \A k \in 1..Len(keyword) : SameIgnoringCase(text[n + k], keyword[k])

C9_KeywordRule ==
    result # None =>
        LET r == Val(result)
        IN  /\ IF HasKeyword(STUDY_GUIDE, query)
               THEN /\ Len(r.sources) = 2
                    /\ r.sources[1] # r.sources[2]
                    /\ DOMAIN r.context = {"topic", "created_at"}
                    /\ r.context.topic = "Machine Learning Fundamentals"
               ELSE IF HasKeyword(ASSIGNMENT, query)
               THEN /\ Len(r.sources) = 2
                    /\ r.sources[1] # r.sources[2]
                    /\ \A n \in 1..2 :
                          r.sources[n].title \notin
                              {"Textbook Chapter 5", "Lecture Notes Week 3"}
                    /\ DOMAIN r.context = {"assignment_type", "due_date"}
               ELSE /\ r.sources = << >>
                    /\ Contains(query, r.response)
                    /\ DOMAIN r.context = {"query_type", "timestamp"}
                    /\ r.context.query_type = "general"
            /\ \A c \in Contexts :
                  mock_agent_response(PyStr(query), c) = Return(r)

\* A query with "ASSIGNMENT" and "Study Guide" in mixed case, sent with a
\* context, got the study-guide response.
C9_Witness ==
    /\ result # None
    /\ context # None
    /\ HasKeyword(ASSIGNMENT, query) /\ HasKeyword(STUDY_GUIDE, query)
    /\ ~Contains(STUDY_GUIDE, query) /\ ~Contains(ASSIGNMENT, query)
    /\ Val(result).context.topic = "Machine Learning Fundamentals"
    /\ Len(Val(result).sources) = 2

(***************************************************************************)
(* C10.  While one request or one channel's frame is suspended in its      *)
(* delay, every other request or channel can take its next step: a new     *)
(* request is accepted, a waiting frame is received, a delay ends, a reply *)
(* is sent.  The frames of one channel are handled one at a time: while a  *)
(* channel holds a frame, it receives no other.                            *)
(***************************************************************************)
CanStep(o) ==
    IF o \in Chans
    THEN /\ (ws_pc[o] = "idle" /\ peer[o] = "open") => CanConnect(o)
         /\ (ws_pc[o] = "receive" /\ inbox[o] # << >>) => CanReceive(o)
         /\ ws_pc[o] = "sleep" => CanWake(o)
         /\ ws_pc[o] \in SendPoints => CanSend(o)
    ELSE /\ posts[o].pc = "none" => CanPostQuery(o)
         /\ posts[o].pc = "sleep" => CanPostWake(o)

ContainsText(item, text) ==
    \/ HasKeyword(text, item.title)
    \/ item.summary # None /\ HasKeyword(text, Val(item.summary))

\* The places of the catalog at which the item stands.
PlacesOf(item) == {i \in 1..Len(doc_items) : doc_items[i] = item}

C11_SearchExact ==
    results # None =>
        LET r == Val(results)
        IN  /\ \A n \in 1..Len(r) :
                  PlacesOf(r[n]) # {} /\ ContainsText(r[n], search_query)
            /\ \A i \in 1..Len(doc_items) :
                  ContainsText(doc_items[i], search_query) =>
                      \E n \in 1..Len(r) : r[n] = doc_items[i]
            /\ \A m, n \in 1..Len(r) :
                  m < n => \A i \in PlacesOf(r[m]) : \A j \in PlacesOf(r[n]) : i < j
            /\ search_query = ASSIGNMENT =>
                  \A n \in 1..Len(r) : ContainsText(r[n], ASSIGNMENT)
            /\ search_query = << >> => r = doc_items

\* A text in upper case was searched for; some items of the catalog were
\* returned and some were not, one of the returned has the text in its title,
\* another only in its summary, and neither has it in upper case.
C11_Witness ==
    /\ results # None
    /\ search_query # lower(search_query)
    /\ LET r == Val(results)
       IN  /\ Len(r) >= 2
           /\ Len(r) < Len(doc_items)
           /\ \E n \in 1..Len(r) : HasKeyword(search_query, r[n].title)
           /\ \E n \in 1..Len(r) : ~HasKeyword(search_query, r[n].title)
           /\ \A n \in 1..Len(r) :
                 /\ ~Contains(search_query, r[n].title)
                 /\ ~Contains(search_query, Val(r[n].summary))

====
